---- MODULE Spec2Model ----
(***************************************************************************)
(* rpi-camera-encode: the control thread of main() (src/unnamed/part_000), *)
(* the OMX callback context (event_handler, fill_output_buffer_done_       *)
(* handler), the signal handler, and the hardware components the program   *)
(* drives (camera, video_encode, null_sink), seen through the calls the    *)
(* program makes on them.                                                  *)
(*                                                                         *)
(* main() is straight-line code: Program lists its hardware calls and its  *)
(* waits in source order, pc is the index of the statement about to run    *)
(* and sub is the position inside a statement that loops                   *)
(* (init_component_handle, the block_until_* loops, the capture loop).     *)
(***************************************************************************)
EXTENDS Integers, Sequences, FiniteSets, TLC

\* ------------------------------------------------------------------ bounds

\* Number of data buffers the encoder delivers in one run.
MaxFills ==
    3

\* Number of times in one run that a call whose status the program does not
\* look at fails, or that an uninitialised local is read as a value that
\* ends its loop.
MaxFaults ==
    1

\* Number of unanswered polls of the camera-ready flag that are counted;
\* the count stays at MaxPolls + 1 from there on.
MaxPolls ==
    2

\* ---------------------------------------------------------------- constants

Comps ==
    {"camera", "encoder", "null_sink"}

Ports ==
    {70, 71, 73, 200, 201, 240}

PortOwner(p) ==
    IF p \in {70, 71, 73} THEN "camera"
    ELSE IF p \in {200, 201} THEN "encoder"
    ELSE "null_sink"

\* OMX_STATETYPE values the program uses; "Garbage" stands for every other
\* value an uninitialised OMX_STATETYPE may hold.
States ==
    {"Loaded", "Idle", "Executing"}

\* nFlags & OMX_BUFFERFLAG_SYNCFRAME is 0 or this bit.
OMX_BUFFERFLAG_SYNCFRAME ==
    32

KeyBits ==
    {0, OMX_BUFFERFLAG_SYNCFRAME}

\* a ^ b for a, b in KeyBits
Xor(a, b) ==
    IF a = b THEN 0 ELSE OMX_BUFFERFLAG_SYNCFRAME

\* A faulty form whose loop stops after the first group.
typesAudioOnly ==
    <<"Audio">>

\* The four port groups init_component_handle queries, in order.
types ==
    <<"Audio", "Video", "Image", "Other">>

\* Ports a component reports for a port group.
PortGroup(c, t) ==
    IF t # "Video" THEN <<>>
    ELSE IF c = "camera" THEN <<70, 71, 73>>
    ELSE IF c = "encoder" THEN <<200, 201>>
    ELSE <<240>>

Tunnels ==
    {<<70, 240>>, <<71, 200>>}

BufferPorts ==
    {73, 201}

\* ------------------------------------------------------------------ program

St(op, comp, port, arg) ==
    [op |-> op, comp |-> comp, port |-> port, arg |-> arg]

InitSteps ==
    << St("InitHandle", "camera", 0, "-"),
       St("InitHandle", "encoder", 0, "-"),
       St("InitHandle", "null_sink", 0, "-") >>

\* A faulty ordering that sets the device number before it asks for the
\* callback.
CameraConfigStepsDeviceFirst ==
    << St("DumpPort", "camera", 73, "-"),
       St("DumpPort", "camera", 70, "-"),
       St("DumpPort", "camera", 71, "-"),
       St("SetParameter", "camera", 0, "CameraDeviceNumber"),
       St("SetConfig", "camera", 0, "RequestCallback"),
       St("GetParameter", "camera", 70, "PortDefinition"),
       St("SetParameter", "camera", 70, "PortDefinition"),
       St("GetParameter", "camera", 70, "PortDefinition"),
       St("SetParameter", "camera", 71, "PortDefinition"),
       St("SetConfig", "camera", 70, "VideoFramerate"),
       St("SetConfig", "camera", 71, "VideoFramerate"),
       St("SetConfig", "camera", 0, "Sharpness"),
       St("SetConfig", "camera", 0, "Contrast"),
       St("SetConfig", "camera", 0, "Saturation"),
       St("SetConfig", "camera", 0, "Brightness"),
       St("SetConfig", "camera", 0, "ExposureValue"),
       St("SetConfig", "camera", 0, "FrameStabilisation"),
       St("SetConfig", "camera", 0, "WhiteBalance"),
       St("SetConfig", "camera", 0, "ImageFilter"),
       St("SetConfig", "camera", 71, "Mirror"),
       St("WaitCameraReady", "camera", 0, "-") >>

CameraConfigSteps ==
    << St("DumpPort", "camera", 73, "-"),
       St("DumpPort", "camera", 70, "-"),
       St("DumpPort", "camera", 71, "-"),
       St("SetConfig", "camera", 0, "RequestCallback"),
       St("SetParameter", "camera", 0, "CameraDeviceNumber"),
       St("GetParameter", "camera", 70, "PortDefinition"),
       St("SetParameter", "camera", 70, "PortDefinition"),
       St("GetParameter", "camera", 70, "PortDefinition"),
       St("SetParameter", "camera", 71, "PortDefinition"),
       St("SetConfig", "camera", 70, "VideoFramerate"),
       St("SetConfig", "camera", 71, "VideoFramerate"),
       St("SetConfig", "camera", 0, "Sharpness"),
       St("SetConfig", "camera", 0, "Contrast"),
       St("SetConfig", "camera", 0, "Saturation"),
       St("SetConfig", "camera", 0, "Brightness"),
       St("SetConfig", "camera", 0, "ExposureValue"),
       St("SetConfig", "camera", 0, "FrameStabilisation"),
       St("SetConfig", "camera", 0, "WhiteBalance"),
       St("SetConfig", "camera", 0, "ImageFilter"),
       St("SetConfig", "camera", 71, "Mirror"),
       St("WaitCameraReady", "camera", 0, "-") >>

EncoderConfigSteps ==
    << St("DumpPort", "encoder", 200, "-"),
       St("DumpPort", "encoder", 201, "-"),
       St("GetParameter", "encoder", 201, "PortDefinition"),
       St("SetParameter", "encoder", 201, "PortDefinition"),
       St("SetParameter", "encoder", 201, "VideoBitrate"),
       St("SetParameter", "encoder", 201, "VideoPortFormat"),
       St("DumpPort", "null_sink", 240, "-") >>

TunnelSteps ==
    << St("SetupTunnel", "camera", 70, "240"),
       St("SetupTunnel", "camera", 71, "200") >>

StateSteps(s) ==
    << St("StateSet", "camera", 0, s), St("WaitState", "camera", 0, s),
       St("StateSet", "encoder", 0, s), St("WaitState", "encoder", 0, s),
       St("StateSet", "null_sink", 0, s), St("WaitState", "null_sink", 0, s) >>

PortSteps(a) ==
    << St("PortCmd", "camera", 73, a), St("WaitPort", "camera", 73, a),
       St("PortCmd", "camera", 70, a), St("WaitPort", "camera", 70, a),
       St("PortCmd", "camera", 71, a), St("WaitPort", "camera", 71, a),
       St("PortCmd", "encoder", 200, a), St("WaitPort", "encoder", 200, a),
       St("PortCmd", "encoder", 201, a), St("WaitPort", "encoder", 201, a),
       St("PortCmd", "null_sink", 240, a), St("WaitPort", "null_sink", 240, a) >>

\* A faulty form that allocates the encoder's buffer on its tunneled
\* input port.
AllocStepsTunneled ==
    << St("GetParameter", "camera", 73, "PortDefinition"),
       St("AllocateBuffer", "camera", 73, "-"),
       St("GetParameter", "encoder", 200, "PortDefinition"),
       St("AllocateBuffer", "encoder", 200, "-") >>

AllocSteps ==
    << St("GetParameter", "camera", 73, "PortDefinition"),
       St("AllocateBuffer", "camera", 73, "-"),
       St("GetParameter", "encoder", 201, "PortDefinition"),
       St("AllocateBuffer", "encoder", 201, "-") >>

CaptureSteps ==
    << St("SetParameter", "camera", 71, "CapturingOn"),
       St("DumpPort", "camera", 73, "-"),
       St("DumpPort", "camera", 70, "-"),
       St("DumpPort", "camera", 71, "-"),
       St("DumpPort", "encoder", 200, "-"),
       St("DumpPort", "encoder", 201, "-"),
       St("DumpPort", "null_sink", 240, "-") >>

LoopSteps ==
    << St("Signal", "-", 0, "install"),
       St("DrainLoop", "encoder", 201, "-"),
       St("Signal", "-", 0, "restore") >>

\* A faulty ordering that hands the buffer back before capture is stopped.
StopStepsEosFirst ==
    << St("EosFill", "encoder", 201, "-"),
       St("SetParameter", "camera", 71, "CapturingOff") >>

StopSteps ==
    << St("SetParameter", "camera", 71, "CapturingOff"),
       St("EosFill", "encoder", 201, "-") >>

FlushSteps ==
    << St("Flush", "camera", 73, "-"), St("WaitFlushed", "-", 0, "-"),
       St("Flush", "camera", 70, "-"), St("WaitFlushed", "-", 0, "-"),
       St("Flush", "camera", 71, "-"), St("WaitFlushed", "-", 0, "-"),
       St("Flush", "encoder", 200, "-"), St("WaitFlushed", "-", 0, "-"),
       St("Flush", "encoder", 201, "-"), St("WaitFlushed", "-", 0, "-"),
       St("Flush", "null_sink", 240, "-"), St("WaitFlushed", "-", 0, "-") >>

FreeSteps ==
    << St("FreeBuffer", "camera", 73, "-"),
       St("FreeBuffer", "encoder", 201, "-") >>

ExitSteps ==
    << St("FreeHandle", "camera", 0, "-"),
       St("FreeHandle", "encoder", 0, "-"),
       St("FreeHandle", "null_sink", 0, "-"),
       St("Deinit", "-", 0, "-") >>

\* A faulty ordering that switches to executing before the buffers are allocated.
StartupProgramExecFirst ==
    InitSteps \o CameraConfigSteps \o EncoderConfigSteps \o TunnelSteps
        \o StateSteps("Idle") \o PortSteps("enable")
        \o StateSteps("Executing") \o AllocSteps \o CaptureSteps

\* A faulty ordering that sets the tunnels up after the switch to idle.
StartupProgramTunnelLate ==
    InitSteps \o CameraConfigSteps \o EncoderConfigSteps
        \o StateSteps("Idle") \o TunnelSteps \o PortSteps("enable") \o AllocSteps
        \o StateSteps("Executing") \o CaptureSteps

\* A faulty ordering that never switches the components to executing.
StartupProgramNoExec ==
    InitSteps \o CameraConfigSteps \o EncoderConfigSteps \o TunnelSteps
        \o StateSteps("Idle") \o PortSteps("enable") \o AllocSteps
        \o CaptureSteps

StartupProgram ==
    InitSteps \o CameraConfigSteps \o EncoderConfigSteps \o TunnelSteps
        \o StateSteps("Idle") \o PortSteps("enable") \o AllocSteps
        \o StateSteps("Executing") \o CaptureSteps

\* A faulty ordering that frees the buffers before the ports are disabled.
TeardownProgramFreeFirst ==
    StopSteps \o FlushSteps \o FreeSteps \o PortSteps("disable")
        \o StateSteps("Idle") \o StateSteps("Loaded") \o ExitSteps

\* A faulty ordering that goes from Executing to Loaded without Idle.
TeardownProgramNoIdle ==
    StopSteps \o FlushSteps \o PortSteps("disable") \o FreeSteps
        \o StateSteps("Loaded") \o ExitSteps

TeardownProgram ==
    StopSteps \o FlushSteps \o PortSteps("disable") \o FreeSteps
        \o StateSteps("Idle") \o StateSteps("Loaded") \o ExitSteps

Program ==
    StartupProgram \o LoopSteps \o TeardownProgram

\* Index of the capture loop in Program.
LoopIdx ==
    Len(StartupProgram) + 2

\* The parameter and configuration items of the Configured state.
ConfigItems ==
    { <<Program[k].comp, Program[k].port, Program[k].arg>> :
        k \in { j \in 1..Len(StartupProgram) :
                  /\ Program[j].op \in {"SetConfig", "SetParameter"}
                  /\ Program[j].arg # "CapturingOn" } }

\* -------------------------------------------------------------------- state

VARIABLES
    pc,         \* index in Program of the statement main() is at
    sub,        \* position inside that statement
    exited,     \* "no", "status0" (return 0), "status1" (exit(1) from die)
    loc,        \* locals of the helper main() is in
    hw,         \* the hardware components, as the OMX calls see them
    ctx,        \* appctx flags: flushed, camera.ready, encoder.ready
    lock,       \* ctx.handler_lock: "free", "main", "cb"
    cb,         \* the callback context: the event being handled and where
    want_quit,  \* the global set by signal_handler
    lp,         \* locals of the capture loop, and the signal disposition
    h           \* history: what has been issued, observed and written

vars ==
    <<pc, sub, exited, loc, hw, ctx, lock, cb, want_quit, lp, h>>

Status ==
    {"ok", "err"}

\* Locals as the helpers initialise them: OMX_INIT_STRUCTURE zeroes portdef,
\* i = 0; eState and quit are declared without an initialiser (quit = -1
\* and eState = "Undef" stand for "not yet written"). n is the number of
\* times the camera-ready wait has found the flag unset.
LocInit ==
    [i |-> 0, bEnabled |-> FALSE, eState |-> "Undef", quit |-> -1,
     ichI |-> 1, ichPorts |-> <<>>, n |-> 0]

CbIdle ==
    [ev |-> "none", data |-> "-", stage |-> "idle"]

Event(ev, data) ==
    [ev |-> ev, data |-> data, stage |-> "wait"]

\* A faulty form in which encoder.ready is not zeroed.
CtxInitReady ==
    [flushed |-> 0, camera_ready |-> 0, encoder_ready |-> 1]

\* memset(&ctx, 0, sizeof(ctx))
CtxInit ==
    [flushed |-> 0, camera_ready |-> 0, encoder_ready |-> 0]

\* int quit_detected = 0, quit_in_keyframe = 0,
\* need_next_buffer_to_be_filled = 1; signals at their default disposition
LpInit ==
    [quit_detected |-> 0, quit_in_keyframe |-> 0,
     need_next_buffer_to_be_filled |-> 1, sigInstalled |-> FALSE]

\* Enabled flags of the ports before the program has touched them.
InitPortStates ==
    { [p \in Ports |-> TRUE], [p \in Ports |-> FALSE],
      [p \in Ports |-> p \in {70, 201}] }

Init ==
    /\ pc = 1
    /\ sub = "call"
    /\ exited = "no"
    /\ loc = LocInit
    /\ \E ps \in InitPortStates :
         hw = [handle |-> [c \in Comps |-> "none"],
               state |-> [c \in Comps |-> "Loaded"],
               stateReq |-> [c \in Comps |-> "none"],
               port |-> ps,
               portReq |-> [p \in Ports |-> "none"],
               flushReq |-> {},
               tunnels |-> {},
               buf |-> [p \in BufferPorts |-> "none"],
               capturing |-> FALSE,
               cbRequested |-> FALSE,
               camReadyPending |-> FALSE,
               outstanding |-> 0,
               nFlags |-> 0]
    /\ ctx = CtxInit
    /\ lock = "free"
    /\ cb = CbIdle
    /\ want_quit = 0
    /\ lp = LpInit
    /\ h = [delivered |-> <<>>,
            sink |-> <<>>,
            latched |-> 0,
            stateCmds |-> [c \in Comps |-> <<>>],
            portCmds |-> [p \in Ports |-> <<>>],
            portSeen |-> [p \in Ports |-> <<>>],
            flushCmds |-> <<>>,
            confirmed |-> [c \in Comps |-> "Loaded"],
            configured |-> {},
            unlocked |-> {},
            ignored |-> 0,
            garbage |-> 0,
            errSeen |-> FALSE]

\* ------------------------------------------------------------------ helpers

Alive ==
    exited = "no"

Cur ==
    Program[pc]

At(op) ==
    /\ Alive
    /\ pc <= Len(Program)
    /\ Cur.op = op

Advance ==
    /\ pc' = pc + 1
    /\ sub' = "call"
    /\ loc' = LocInit

Goto(s) ==
    /\ pc' = pc
    /\ sub' = s

\* The process ends with status s: its memory (locals, appctx, the
\* semaphore, the callback context) is gone; the components and the record
\* of what was done remain.
Halt(s) ==
    /\ exited' = s
    /\ sub' = "call"
    /\ loc' = LocInit
    /\ ctx' = CtxInit
    /\ lock' = "free"
    /\ cb' = CbIdle
    /\ want_quit' = 0
    /\ lp' = LpInit

\* die() / omx_die(): say() and exit(1).
die ==
    /\ Halt("status1")
    /\ UNCHANGED <<pc, hw, h>>

\* Whether one more unchecked failure or stray value fits the run.
FaultLeft ==
    h.ignored + h.garbage < MaxFaults

\* Statuses an unchecked call can return.
UncheckedStatus ==
    IF FaultLeft THEN Status ELSE {"ok"}

\* A flag access by context who ("main" or "cb"), noted when the handler
\* lock is not held by that context.
Access(who, flag, rw) ==
    IF lock = who THEN h.unlocked ELSE h.unlocked \cup {<<who, flag, rw>>}

\* ------------------------------------------------- init_component_handle

\* OMX_GetHandle, checked.
GetHandle ==
    /\ At("InitHandle")
    /\ sub = "call"
    /\ \E st \in Status :
         IF st = "ok"
         THEN /\ hw' = [hw EXCEPT !.handle[Cur.comp] = "live"]
              /\ Goto("probe")
              /\ UNCHANGED <<exited, loc, ctx, lock, cb, want_quit, lp, h>>
         ELSE die

\* OMX_GetParameter(OMX_IndexParamVideoInit) whose status is not looked at.
ProbeUnchecked ==
    /\ At("InitHandle")
    /\ sub = "probe"
    /\ \E st \in UncheckedStatus :
         /\ h' = [h EXCEPT !.ignored = IF st = "err" THEN @ + 1 ELSE @]
         /\ Goto("group")
         /\ UNCHANGED <<exited, loc, hw, ctx, lock, cb, want_quit, lp>>

\* for(i = 0; i < 4; i++) if(OMX_GetParameter(types[i]) == OMX_ErrorNone):
\* a group with ports is reported; a group the component has no ports in is
\* reported empty or the query is refused, and either way it is passed over.
ProbeGroup ==
    /\ At("InitHandle")
    /\ sub = "group"
    /\ loc.ichI <= Len(types)
    /\ LET ps == PortGroup(Cur.comp, types[loc.ichI]) IN
         IF ps # <<>>
         THEN /\ loc' = [loc EXCEPT !.ichPorts = ps]
              /\ Goto("cmd")
              /\ UNCHANGED <<exited, hw, ctx, lock, cb, want_quit, lp, h>>
         ELSE \E st \in UncheckedStatus :
                /\ h' = [h EXCEPT !.ignored = IF st = "err" THEN @ + 1 ELSE @]
                /\ loc' = [loc EXCEPT !.ichI = @ + 1]
                /\ Goto("group")
                /\ UNCHANGED <<exited, hw, ctx, lock, cb, want_quit, lp>>

\* OMX_SendCommand(OMX_CommandPortDisable, nPortIndex), checked.
ProbeDisable ==
    /\ At("InitHandle")
    /\ sub = "cmd"
    /\ LET p == Head(loc.ichPorts) IN
         \E st \in Status :
           IF st = "ok"
           THEN /\ hw' = [hw EXCEPT !.portReq[p] = "disable"]
                /\ h' = [h EXCEPT !.portCmds[p] = Append(@, "disable")]
                /\ loc' = [loc EXCEPT !.i = 0, !.bEnabled = FALSE]
                /\ Goto("wait")
                /\ UNCHANGED <<exited, ctx, lock, cb, want_quit, lp>>
           ELSE die

InitHandleReturn ==
    /\ At("InitHandle")
    /\ sub = "group"
    /\ loc.ichI > Len(types)
    /\ Advance
    /\ UNCHANGED <<exited, hw, ctx, lock, cb, want_quit, lp, h>>

\* ------------------------------------------------ block_until_port_changed

InPortWait ==
    /\ Alive
    /\ pc <= Len(Program)
    /\ \/ Cur.op = "WaitPort" /\ sub = "call"
       \/ Cur.op = "InitHandle" /\ sub = "wait"

WPort ==
    IF Cur.op = "WaitPort" THEN Cur.port ELSE Head(loc.ichPorts)

WTarget ==
    IF Cur.op = "WaitPort" THEN Cur.arg = "enable" ELSE FALSE

\* while(i++ == 0 || portdef.bEnabled != bEnabled); the faulty form leaves out
\* the first-iteration test.
PortLoopCondNoFirst(i, seen, wanted) ==
    seen # wanted

\* A faulty form that asks for a second query whatever the first reported.
PortLoopCondTwice(i, seen, wanted) ==
    i <= 1 \/ seen # wanted

PortLoopCond(i, seen, wanted) ==
    i = 0 \/ seen # wanted

\* if(portdef.bEnabled != bEnabled) usleep(10000)
SleepsAfterPoll(seen, wanted) ==
    seen # wanted

\* One iteration: OMX_GetParameter(OMX_IndexParamPortDefinition), checked,
\* then usleep when the flag is not the wanted one. i only matters as zero
\* or not, so it is kept at 1 once incremented.
PortPoll ==
    /\ InPortWait
    /\ PortLoopCond(loc.i, loc.bEnabled, WTarget)
    /\ \E st \in Status :
         IF st = "ok"
         THEN /\ loc' = [loc EXCEPT !.i = 1, !.bEnabled = hw.port[WPort]]
              /\ UNCHANGED <<pc, sub, exited, hw, ctx, lock, cb, want_quit, lp, h>>
         ELSE die

PortReturn ==
    /\ InPortWait
    /\ ~PortLoopCond(loc.i, loc.bEnabled, WTarget)
    /\ h' = [h EXCEPT !.portSeen[WPort] =
                Append(@, [wanted |-> WTarget, queried |-> loc.i # 0,
                           seen |-> loc.bEnabled, flag |-> hw.port[WPort]])]
    /\ IF Cur.op = "WaitPort"
       THEN Advance
       ELSE IF Len(loc.ichPorts) > 1
       THEN /\ loc' = [loc EXCEPT !.ichPorts = Tail(@)]
            /\ Goto("cmd")
       ELSE /\ loc' = [loc EXCEPT !.ichPorts = <<>>, !.ichI = @ + 1]
            /\ Goto("group")
    /\ UNCHANGED <<exited, hw, ctx, lock, cb, want_quit, lp>>

\* ----------------------------------------------- block_until_state_changed

\* A faulty test that goes on while the state is the wanted one.
StateLoopCondWhileEqual(i, seen, wanted) ==
    i = 0 \/ seen = wanted

\* while(i++ == 0 || eState != wanted_eState)
StateLoopCond(i, seen, wanted) ==
    i = 0 \/ seen # wanted

\* One iteration: OMX_GetState, status not looked at. When the call fails
\* eState keeps what it held, which is anything on the first iteration.
StatePoll ==
    /\ At("WaitState")
    /\ StateLoopCond(loc.i, loc.eState, Cur.arg)
    /\ \E st \in UncheckedStatus :
         IF st = "ok"
         THEN /\ loc' = [loc EXCEPT !.i = 1, !.eState = hw.state[Cur.comp]]
              /\ UNCHANGED h
         ELSE /\ \E g \in States \cup {"Garbage"} :
                   loc' = [loc EXCEPT !.i = 1,
                             !.eState = IF @ = "Undef" THEN g ELSE @]
              /\ h' = [h EXCEPT !.ignored = @ + 1]
    /\ UNCHANGED <<pc, sub, exited, hw, ctx, lock, cb, want_quit, lp>>

StateReturn ==
    /\ At("WaitState")
    /\ ~StateLoopCond(loc.i, loc.eState, Cur.arg)
    /\ h' = [h EXCEPT !.confirmed[Cur.comp] = Cur.arg]
    /\ Advance
    /\ UNCHANGED <<exited, hw, ctx, lock, cb, want_quit, lp>>

\* ---------------------------------------------------- main(): startup calls

\* dump_port: OMX_GetParameter(OMX_IndexParamPortDefinition), checked.
DumpPort ==
    /\ At("DumpPort")
    /\ \E st \in Status :
         IF st = "ok"
         THEN /\ Advance
              /\ UNCHANGED <<exited, hw, ctx, lock, cb, want_quit, lp, h>>
         ELSE die

GetParameter ==
    /\ At("GetParameter")
    /\ \E st \in Status :
         IF st = "ok"
         THEN /\ Advance
              /\ UNCHANGED <<exited, hw, ctx, lock, cb, want_quit, lp, h>>
         ELSE die

\* OMX_SetConfig, checked. OMX_IndexConfigRequestCallback subscribes to the
\* change of OMX_IndexParamCameraDeviceNumber.
SetConfig ==
    /\ At("SetConfig")
    /\ \E st \in Status :
         IF st = "ok"
         THEN /\ hw' = [hw EXCEPT !.cbRequested = @ \/ Cur.arg = "RequestCallback"]
              /\ h' = [h EXCEPT !.configured =
                          @ \cup {<<Cur.comp, Cur.port, Cur.arg>>}]
              /\ Advance
              /\ UNCHANGED <<exited, ctx, lock, cb, want_quit, lp>>
         ELSE die

\* OMX_SetParameter, checked: the camera device number (which makes the
\* camera announce itself when the callback was requested), the port
\* definitions, bitrate and format, and OMX_IndexConfigPortCapturing.
SetParameter ==
    /\ At("SetParameter")
    /\ \E st \in Status :
         IF st = "ok"
         THEN /\ hw' = [hw EXCEPT
                   !.camReadyPending =
                       IF Cur.arg = "CameraDeviceNumber" THEN hw.cbRequested ELSE @,
                   !.capturing =
                       IF Cur.arg = "CapturingOn" THEN TRUE
                       ELSE IF Cur.arg = "CapturingOff" THEN FALSE
                       ELSE @]
              /\ h' = [h EXCEPT !.configured =
                          IF Cur.arg \in {"CapturingOn", "CapturingOff"} THEN @
                          ELSE @ \cup {<<Cur.comp, Cur.port, Cur.arg>>}]
              /\ Advance
              /\ UNCHANGED <<exited, ctx, lock, cb, want_quit, lp>>
         ELSE die

\* A faulty test that does not look at the flag.
CameraReadySeenAlways(r) ==
    TRUE

\* The exit test of while(!ctx.camera_ready).
CameraReadySeen(r) ==
    r # 0

\* while(!ctx.camera_ready) usleep(10000): the flag is read without the
\* handler lock and the loop has no retry bound.
WaitCameraReady ==
    /\ At("WaitCameraReady")
    /\ h' = [h EXCEPT !.unlocked = Access("main", "camera_ready", "r")]
    /\ IF CameraReadySeen(ctx.camera_ready)
       THEN Advance
       ELSE /\ loc' = [loc EXCEPT !.n = IF @ <= MaxPolls THEN @ + 1 ELSE @]
            /\ UNCHANGED <<pc, sub>>
    /\ UNCHANGED <<exited, hw, ctx, lock, cb, want_quit, lp>>

TunnelDst(a) ==
    IF a = "240" THEN 240 ELSE 200

\* OMX_SetupTunnel, checked.
SetupTunnel ==
    /\ At("SetupTunnel")
    /\ \E st \in Status :
         IF st = "ok"
         THEN /\ hw' = [hw EXCEPT !.tunnels = @ \cup {<<Cur.port, TunnelDst(Cur.arg)>>}]
              /\ Advance
              /\ UNCHANGED <<exited, ctx, lock, cb, want_quit, lp, h>>
         ELSE die

\* OMX_SendCommand(OMX_CommandStateSet, state), checked.
StateSet ==
    /\ At("StateSet")
    /\ \E st \in Status :
         IF st = "ok"
         THEN /\ hw' = [hw EXCEPT !.stateReq[Cur.comp] = Cur.arg]
              /\ h' = [h EXCEPT !.stateCmds[Cur.comp] = Append(@, Cur.arg)]
              /\ Advance
              /\ UNCHANGED <<exited, ctx, lock, cb, want_quit, lp>>
         ELSE die

\* OMX_SendCommand(OMX_CommandPortEnable / OMX_CommandPortDisable), checked.
PortCmd ==
    /\ At("PortCmd")
    /\ \E st \in Status :
         IF st = "ok"
         THEN /\ hw' = [hw EXCEPT !.portReq[Cur.port] = Cur.arg]
              /\ h' = [h EXCEPT !.portCmds[Cur.port] = Append(@, Cur.arg)]
              /\ Advance
              /\ UNCHANGED <<exited, ctx, lock, cb, want_quit, lp>>
         ELSE die

\* OMX_AllocateBuffer, checked.
AllocateBuffer ==
    /\ At("AllocateBuffer")
    /\ \E st \in Status :
         IF st = "ok"
         THEN /\ hw' = [hw EXCEPT !.buf[Cur.port] = "allocated"]
              /\ Advance
              /\ UNCHANGED <<exited, ctx, lock, cb, want_quit, lp, h>>
         ELSE die

\* signal(SIGINT/SIGTERM/SIGQUIT, signal_handler) and back to SIG_DFL.
Signal ==
    /\ At("Signal")
    /\ lp' = [lp EXCEPT !.sigInstalled = Cur.arg = "install"]
    /\ Advance
    /\ UNCHANGED <<exited, hw, ctx, lock, cb, want_quit, h>>

\* signal_handler
signal_handler ==
    /\ Alive
    /\ lp.sigInstalled
    /\ want_quit = 0
    /\ want_quit' = 1
    /\ UNCHANGED <<pc, sub, exited, loc, hw, ctx, lock, cb, lp, h>>

\* -------------------------------------------- main(): capture/encode loop

\* A faulty test that takes the latch again at every ready buffer.
ShouldLatchAlways(wq, qd) ==
    wq # 0

\* if(want_quit && !quit_detected)
ShouldLatch(wq, qd) ==
    wq # 0 /\ qd = 0

\* A faulty test that leaves the loop on any key frame once quitting.
ShouldExitOnKey(qd, qk, key) ==
    qd # 0 /\ key # 0

\* The boundary test inverted.
ShouldExitInverted(qd, qk, key) ==
    qd # 0 /\ Xor(qk, key) = 0

\* A faulty test with a logical and in place of the exclusive or.
ShouldExitAnd(qd, qk, key) ==
    qd # 0 /\ qk # 0 /\ key # 0

\* if(quit_detected && (quit_in_keyframe ^ (nFlags & SYNCFRAME)))
ShouldExit(qd, qk, key) ==
    qd # 0 /\ Xor(qk, key) # 0

\* A faulty form that does not clear the request once it is served.
NeedNextAfterFillKept(n) ==
    n

\* need_next_buffer_to_be_filled = 0
NeedNextAfterFill(n) ==
    0

\* A faulty form that leaves encoder.ready set when asking for the next buffer.
ReadyAfterFillKept(r) ==
    r

\* A faulty form that raises encoder.ready itself.
ReadyAfterFillSet(r) ==
    1

\* ctx.encoder.ready = 0
ReadyAfterFill(r) ==
    0

\* A faulty form that does not ask for the next buffer after a write.
NeedNextAfterWriteKept(n) ==
    n

\* need_next_buffer_to_be_filled = 1
NeedNextAfterWrite(n) ==
    1

\* A faulty form that writes the ready buffer before the boundary test.
SinkAtBreakWritten(sink, n) ==
    Append(sink, n)

\* break comes before fwrite: the sink is left as it is.
SinkAtBreak(sink, n) ==
    sink

\* if(ctx.encoder.ready) { latch; boundary test and break; fwrite; }
\* encoder.ready is read without the handler lock. fwrite writes the whole
\* payload or the program dies.
LoopCheck ==
    /\ At("DrainLoop")
    /\ sub = "call"
    /\ IF ctx.encoder_ready = 0
       THEN /\ h' = [h EXCEPT !.unlocked = Access("main", "encoder_ready", "r")]
            /\ Goto("fill")
            /\ UNCHANGED <<exited, loc, hw, ctx, lock, cb, want_quit, lp>>
       ELSE LET latch == ShouldLatch(want_quit, lp.quit_detected)
                qd == IF latch THEN 1 ELSE lp.quit_detected
                qk == IF latch THEN hw.nFlags ELSE lp.quit_in_keyframe
                hl == [h EXCEPT
                         !.unlocked = Access("main", "encoder_ready", "r"),
                         !.latched = IF latch THEN Len(h.delivered) ELSE @]
            IN  IF ShouldExit(qd, qk, hw.nFlags)
                THEN /\ lp' = [lp EXCEPT !.quit_detected = qd, !.quit_in_keyframe = qk]
                     /\ h' = [hl EXCEPT !.sink = SinkAtBreak(@, Len(h.delivered))]
                     /\ Advance
                     /\ UNCHANGED <<exited, hw, ctx, lock, cb, want_quit>>
                ELSE \E st \in Status :
                       IF st = "ok"
                       THEN /\ lp' = [lp EXCEPT !.quit_detected = qd,
                                        !.quit_in_keyframe = qk,
                                        !.need_next_buffer_to_be_filled =
                                            NeedNextAfterWrite(@)]
                            /\ h' = [hl EXCEPT !.sink = Append(@, Len(h.delivered))]
                            /\ Goto("fill")
                            /\ UNCHANGED <<exited, loc, hw, ctx, lock, cb, want_quit>>
                       ELSE die

\* A faulty ordering that asks for the next buffer before it clears the flag.
FillOrderRequestFirst ==
    <<"request", "clear">>

\* need_next_buffer_to_be_filled = 0; ctx.encoder.ready = 0; and then
\* OMX_FillThisBuffer.
FillOrder ==
    <<"clear", "request">>

\* The k-th part of the fill block, continuing at nxt: the two assignments
\* (encoder.ready is written without the handler lock), or
\* OMX_FillThisBuffer, checked.
FillPart(k, nxt) ==
    IF FillOrder[k] = "clear"
    THEN /\ lp' = [lp EXCEPT !.need_next_buffer_to_be_filled =
                      NeedNextAfterFill(@)]
         /\ ctx' = [ctx EXCEPT !.encoder_ready = ReadyAfterFill(@)]
         /\ h' = [h EXCEPT !.unlocked = Access("main", "encoder_ready", "w")]
         /\ Goto(nxt)
         /\ UNCHANGED <<exited, loc, hw, lock, cb, want_quit>>
    ELSE \E st \in Status :
           IF st = "ok"
           THEN /\ hw' = [hw EXCEPT !.outstanding = @ + 1]
                /\ Goto(nxt)
                /\ UNCHANGED <<exited, loc, ctx, lock, cb, want_quit, lp, h>>
           ELSE die

\* if(need_next_buffer_to_be_filled) { first part of the block }, or
\* usleep(1000) and the next iteration.
LoopFill ==
    /\ At("DrainLoop")
    /\ sub = "fill"
    /\ IF lp.need_next_buffer_to_be_filled = 0
       THEN /\ Goto("call")
            /\ UNCHANGED <<exited, loc, hw, ctx, lock, cb, want_quit, lp, h>>
       ELSE FillPart(1, "fill2")

\* The second part of the fill block; usleep(1000) and the next iteration.
LoopFillRest ==
    /\ At("DrainLoop")
    /\ sub = "fill2"
    /\ FillPart(2, "call")

\* --------------------------------------------------------- main(): cleanup

\* buffer_out->nFlags = OMX_BUFFERFLAG_EOS; OMX_FillThisBuffer, checked.
EosFill ==
    /\ At("EosFill")
    /\ \E st \in Status :
         IF st = "ok"
         THEN /\ hw' = [hw EXCEPT !.nFlags = 0, !.outstanding = @ + 1]
              /\ Advance
              /\ UNCHANGED <<exited, ctx, lock, cb, want_quit, lp, h>>
         ELSE die

\* OMX_SendCommand(OMX_CommandFlush, port), checked.
Flush ==
    /\ At("Flush")
    /\ \E st \in Status :
         IF st = "ok"
         THEN /\ hw' = [hw EXCEPT !.flushReq = @ \cup {Cur.port}]
              /\ h' = [h EXCEPT !.flushCmds = Append(@, Cur.port)]
              /\ Advance
              /\ UNCHANGED <<exited, ctx, lock, cb, want_quit, lp>>
         ELSE die

\* block_until_flushed, while(!quit): quit has no initialiser, so the first
\* test reads whatever the stack holds.
FlushTest ==
    /\ At("WaitFlushed")
    /\ sub = "call"
    /\ \E q \in (IF loc.quit # -1 THEN {loc.quit}
                  ELSE IF FaultLeft THEN {0, 1} ELSE {0}) :
         /\ IF q # 0
            THEN Advance
            ELSE /\ loc' = [loc EXCEPT !.quit = 0]
                 /\ Goto("lock")
         /\ h' = [h EXCEPT !.garbage =
                     IF loc.quit = -1 /\ q # 0 THEN @ + 1 ELSE @]
    /\ UNCHANGED <<exited, hw, ctx, lock, cb, want_quit, lp>>

\* vcos_semaphore_wait(&ctx->handler_lock)
FlushLock ==
    /\ At("WaitFlushed")
    /\ sub = "lock"
    /\ lock = "free"
    /\ lock' = "main"
    /\ Goto("cs")
    /\ UNCHANGED <<exited, loc, hw, ctx, cb, want_quit, lp, h>>

\* if(ctx->flushed) { ctx->flushed = 0; quit = 1; }
FlushCheck ==
    /\ At("WaitFlushed")
    /\ sub = "cs"
    /\ IF ctx.flushed # 0
       THEN /\ ctx' = [ctx EXCEPT !.flushed = 0]
            /\ loc' = [loc EXCEPT !.quit = 1]
            /\ h' = [h EXCEPT !.unlocked = Access("main", "flushed", "w")]
       ELSE /\ h' = [h EXCEPT !.unlocked = Access("main", "flushed", "r")]
            /\ UNCHANGED <<ctx, loc>>
    /\ Goto("post")
    /\ UNCHANGED <<exited, hw, lock, cb, want_quit, lp>>

\* A faulty form that sleeps and goes round the loop with the lock held.
LockAfterPostHeld ==
    "main"

\* The semaphore once vcos_semaphore_post has run.
LockAfterPost ==
    "free"

\* vcos_semaphore_post(&ctx->handler_lock); if(!quit) usleep(10000)
FlushPost ==
    /\ At("WaitFlushed")
    /\ sub = "post"
    /\ lock' = LockAfterPost
    /\ Goto("call")
    /\ UNCHANGED <<exited, loc, hw, ctx, cb, want_quit, lp, h>>

\* OMX_FreeBuffer, checked.
FreeBuffer ==
    /\ At("FreeBuffer")
    /\ \E st \in Status :
         IF st = "ok"
         THEN /\ hw' = [hw EXCEPT !.buf[Cur.port] = "freed"]
              /\ Advance
              /\ UNCHANGED <<exited, ctx, lock, cb, want_quit, lp, h>>
         ELSE die

\* OMX_FreeHandle, checked.
FreeHandle ==
    /\ At("FreeHandle")
    /\ \E st \in Status :
         IF st = "ok"
         THEN /\ hw' = [hw EXCEPT !.handle[Cur.comp] = "freed"]
              /\ Advance
              /\ UNCHANGED <<exited, ctx, lock, cb, want_quit, lp, h>>
         ELSE die

\* fclose, vcos_semaphore_delete, OMX_Deinit (checked), return 0.
Deinit ==
    /\ At("Deinit")
    /\ \E st \in Status :
         IF st = "ok"
         THEN /\ Halt("status0")
              /\ pc' = pc + 1
              /\ UNCHANGED <<hw, h>>
         ELSE die

\* ------------------------------------------------------------ the hardware
\* A command completes some time after OMX_SendCommand returned; the
\* component then reports the new state or flag and raises
\* OMX_EventCmdComplete in the callback context, which handles one event
\* at a time.

HwStateDone(c) ==
    /\ Alive
    /\ hw.stateReq[c] # "none"
    /\ cb.stage = "idle"
    /\ hw' = [hw EXCEPT !.state[c] = hw.stateReq[c], !.stateReq[c] = "none"]
    /\ cb' = Event("CmdComplete", "StateSet")
    /\ UNCHANGED <<pc, sub, exited, loc, ctx, lock, want_quit, lp, h>>

HwPortDone(p) ==
    /\ Alive
    /\ hw.portReq[p] # "none"
    /\ cb.stage = "idle"
    /\ hw' = [hw EXCEPT !.port[p] = (hw.portReq[p] = "enable"),
                        !.portReq[p] = "none"]
    /\ cb' = Event("CmdComplete", "Port")
    /\ UNCHANGED <<pc, sub, exited, loc, ctx, lock, want_quit, lp, h>>

\* A flush of port 201 completes once the encoder has given the output
\* buffer back.
HwFlushDone(p) ==
    /\ Alive
    /\ p \in hw.flushReq
    /\ p = 201 => hw.outstanding = 0
    /\ cb.stage = "idle"
    /\ hw' = [hw EXCEPT !.flushReq = @ \ {p}]
    /\ cb' = Event("CmdComplete", "Flush")
    /\ UNCHANGED <<pc, sub, exited, loc, ctx, lock, want_quit, lp, h>>

\* The camera announces that the device number has changed.
HwCameraReady ==
    /\ Alive
    /\ hw.camReadyPending
    /\ cb.stage = "idle"
    /\ hw' = [hw EXCEPT !.camReadyPending = FALSE]
    /\ cb' = Event("ParamChanged", "CameraDeviceNumber")
    /\ UNCHANGED <<pc, sub, exited, loc, ctx, lock, want_quit, lp, h>>

\* The encoder gives the output buffer back: filled with the next piece of
\* the stream, key frame or not, while the camera captures, and as it is
\* once capture is off.
HwFillDone ==
    /\ Alive
    /\ hw.outstanding > 0
    /\ cb.stage = "idle"
    /\ IF hw.capturing
       THEN /\ Len(h.delivered) < MaxFills
            /\ \E key \in KeyBits :
                 /\ hw' = [hw EXCEPT !.outstanding = @ - 1, !.nFlags = key]
                 /\ h' = [h EXCEPT !.delivered = Append(@, key)]
       ELSE /\ hw' = [hw EXCEPT !.outstanding = @ - 1]
            /\ UNCHANGED h
    /\ cb' = Event("FillBufferDone", "-")
    /\ UNCHANGED <<pc, sub, exited, loc, ctx, lock, want_quit, lp>>

\* ------------------------------------------------------------ the callbacks

\* A faulty OMX_EventError case that only logs the event.
ErrorEventLogged ==
    UNCHANGED <<pc, sub, exited, loc, hw, ctx, lock, cb, want_quit, lp>>

\* case OMX_EventError: omx_die(nData1, "error event received")
ErrorEventCase ==
    /\ Halt("status1")
    /\ UNCHANGED <<pc, hw>>

\* event_handler for OMX_EventError, raised by any component whose handle
\* the program holds.
EventError ==
    /\ Alive
    /\ \E c \in Comps : hw.handle[c] = "live"
    /\ ~h.errSeen
    /\ h' = [h EXCEPT !.errSeen = TRUE]
    /\ ErrorEventCase

\* vcos_semaphore_wait(&ctx->handler_lock) in either handler
CbLock ==
    /\ Alive
    /\ cb.stage = "wait"
    /\ lock = "free"
    /\ lock' = "cb"
    /\ cb' = [cb EXCEPT !.stage = "cs"]
    /\ UNCHANGED <<pc, sub, exited, loc, hw, ctx, want_quit, lp, h>>

\* A faulty form that takes every completed command for a flush.
HandlerFlagAnyCmd(e) ==
    IF e.ev = "CmdComplete" THEN "flushed"
    ELSE IF e.ev = "ParamChanged" /\ e.data = "CameraDeviceNumber" THEN "camera_ready"
    ELSE IF e.ev = "FillBufferDone" THEN "encoder_ready"
    ELSE "none"

\* What the handler writes for an event: flushed for a completed
\* OMX_CommandFlush, camera.ready for a change of the camera device number,
\* encoder.ready for a filled buffer.
HandlerFlag(e) ==
    IF e.ev = "CmdComplete" /\ e.data = "Flush" THEN "flushed"
    ELSE IF e.ev = "ParamChanged" /\ e.data = "CameraDeviceNumber" THEN "camera_ready"
    ELSE IF e.ev = "FillBufferDone" THEN "encoder_ready"
    ELSE "none"

\* The body of the critical section of event_handler and of
\* fill_output_buffer_done_handler.
CbBody ==
    /\ Alive
    /\ cb.stage = "cs"
    /\ LET f == HandlerFlag(cb) IN
         IF f = "none"
         THEN UNCHANGED <<ctx, h>>
         ELSE /\ ctx' = [ctx EXCEPT ![f] = 1]
              /\ h' = [h EXCEPT !.unlocked = Access("cb", f, "w")]
    /\ cb' = [cb EXCEPT !.stage = "post"]
    /\ UNCHANGED <<pc, sub, exited, loc, hw, lock, want_quit, lp>>

\* vcos_semaphore_post(&ctx->handler_lock); return OMX_ErrorNone
CbPost ==
    /\ Alive
    /\ cb.stage = "post"
    /\ lock' = "free"
    /\ cb' = CbIdle
    /\ UNCHANGED <<pc, sub, exited, loc, hw, ctx, want_quit, lp, h>>

\* ------------------------------------------------------------ specification

Next ==
    \/ GetHandle
    \/ ProbeUnchecked
    \/ ProbeGroup
    \/ ProbeDisable
    \/ InitHandleReturn
    \/ PortPoll
    \/ PortReturn
    \/ StatePoll
    \/ StateReturn
    \/ DumpPort
    \/ GetParameter
    \/ SetConfig
    \/ SetParameter
    \/ WaitCameraReady
    \/ SetupTunnel
    \/ StateSet
    \/ PortCmd
    \/ AllocateBuffer
    \/ Signal
    \/ signal_handler
    \/ LoopCheck
    \/ LoopFill
    \/ LoopFillRest
    \/ EosFill
    \/ Flush
    \/ FlushTest
    \/ FlushLock
    \/ FlushCheck
    \/ FlushPost
    \/ FreeBuffer
    \/ FreeHandle
    \/ Deinit
    \/ \E c \in Comps : HwStateDone(c)
    \/ \E p \in Ports : HwPortDone(p)
    \/ \E p \in Ports : HwFlushDone(p)
    \/ HwCameraReady
    \/ HwFillDone
    \/ EventError
    \/ CbLock
    \/ CbBody
    \/ CbPost

Spec ==
    Init /\ [][Next]_vars

\* The control thread runs from vcos_semaphore_wait to vcos_semaphore_post
\* without blocking, and a handler blocked in vcos_semaphore_wait is woken
\* by a post: the poster sleeps 10 ms before it asks for the lock again.
LiveSpec ==
    /\ Spec
    /\ WF_vars(FlushCheck)
    /\ WF_vars(FlushPost)
    /\ SF_vars(CbLock)

\* The steps of the control thread that do not wait for the semaphore.
Control ==
    \/ GetHandle \/ ProbeUnchecked \/ ProbeGroup \/ ProbeDisable
    \/ InitHandleReturn \/ PortPoll \/ PortReturn \/ StatePoll \/ StateReturn
    \/ DumpPort \/ GetParameter \/ SetConfig \/ SetParameter
    \/ WaitCameraReady \/ SetupTunnel \/ StateSet \/ PortCmd \/ AllocateBuffer
    \/ Signal \/ LoopCheck \/ LoopFill \/ LoopFillRest \/ EosFill \/ Flush
    \/ FlushTest \/ FlushCheck \/ FlushPost \/ FreeBuffer \/ FreeHandle \/ Deinit

\* The components completing what they have been asked for.
Hardware ==
    \/ \E c \in Comps : HwStateDone(c)
    \/ \E p \in Ports : HwPortDone(p)
    \/ \E p \in Ports : HwFlushDone(p)
    \/ HwCameraReady
    \/ HwFillDone

\* The control thread is scheduled: its loops sleep and poll again (usleep
\* in every wait and in the capture loop), and it gets the semaphore in the
\* end. The components answer what they have been asked, and the handlers
\* run to their return.
FairSpec ==
    /\ LiveSpec
    /\ WF_vars(Control)
    /\ SF_vars(FlushLock)
    /\ WF_vars(Hardware)
    /\ WF_vars(CbBody)
    /\ WF_vars(CbPost)


\* ------------------------------------------------------------------- claims

\* The capture loop has been left through its break.
LoopExited ==
    pc > LoopIdx

\* The buffers written are the first buffers delivered, each once, in the
\* order of delivery.
WrittenInOrder ==
    /\ Len(h.sink) <= Len(h.delivered)
    /\ \A k \in 1..Len(h.sink) : h.sink[k] = k

\* C1, as stated: once want_quit has been observed, the buffers written up
\* to the exit of the loop end at a key frame boundary: the last buffer
\* written has the SYNCFRAME flag set, or the buffer that was ready when
\* the signal was observed had it and the loop exits in that iteration.
C1_EndsAtKeyframe ==
    LoopExited =>
        \/ /\ h.sink # <<>>
           /\ h.delivered[h.sink[Len(h.sink)]] # 0
        \/ /\ h.delivered[h.latched] # 0
           /\ Len(h.delivered) = h.latched

\* C1, amended: the loop never exits in the iteration that observes
\* want_quit; it writes the buffer that was ready then and every following
\* buffer with the same SYNCFRAME bit, and exits on the first ready buffer
\* whose bit differs, without writing it. The last buffer written carries
\* the bit of the buffer at which the signal was observed.
C1_EndsAtFlagChange ==
    LoopExited =>
        LET n == Len(h.delivered) IN
        /\ h.latched >= 1
        /\ n > h.latched
        /\ h.delivered[n] # h.delivered[h.latched]
        /\ \A k \in h.latched..(n - 1) : h.delivered[k] = h.delivered[h.latched]
        /\ Len(h.sink) = n - 1
        /\ h.sink[n - 1] = n - 1
        /\ h.delivered[h.sink[n - 1]] = h.delivered[h.latched]

C1_Witness ==
    /\ LoopExited
    /\ h.delivered[h.latched] = 0
    /\ h.delivered[Len(h.delivered)] # 0

\* C2: at most one OMX_FillThisBuffer request for the encoder output buffer
\* is outstanding, from allocation to free: in the loop, after the
\* end-of-stream hand-back and during the flushes.
C2_NoDoubleFill ==
    hw.outstanding <= 1

C2_Witness ==
    /\ Alive
    /\ pc <= Len(Program)
    /\ Cur.op = "WaitFlushed"
    /\ hw.outstanding = 1

\* C3: when want_quit is observed at a ready buffer without the SYNCFRAME
\* flag, every delivered buffer is written once, in order, until a buffer
\* with the flag is delivered; the loop exits at that buffer, and every
\* buffer delivered before it has been written.
C3_MidGopDrain ==
    (h.latched >= 1 /\ h.delivered[h.latched] = 0) =>
        LET n == Len(h.delivered) IN
        /\ WrittenInOrder
        /\ Len(h.sink) >= n - 1
        /\ \A k \in h.latched..Len(h.sink) : h.delivered[k] = 0
        /\ LoopExited => /\ h.delivered[n] # 0
                         /\ Len(h.sink) = n - 1

C3_Witness ==
    /\ LoopExited
    /\ h.latched >= 1
    /\ h.delivered[h.latched] = 0
    /\ Len(h.sink) > h.latched

\* C4: without a signal and without an error, the buffers written are
\* exactly the buffers delivered, in order: the write lags the delivery by
\* at most the one buffer that is ready, and whenever the next fill has
\* been requested every delivered buffer has been written.
C4_NormalRun ==
    (Alive /\ pc = LoopIdx /\ want_quit = 0) =>
        /\ WrittenInOrder
        /\ Len(h.delivered) <= Len(h.sink) + 1
        /\ hw.outstanding = 1 => Len(h.sink) = Len(h.delivered)
        /\ (sub = "fill" /\ lp.need_next_buffer_to_be_filled = 1)
               => Len(h.sink) = Len(h.delivered)

C4_Witness ==
    /\ Alive
    /\ pc = LoopIdx
    /\ want_quit = 0
    /\ Len(h.sink) = MaxFills
    /\ \E j, k \in 1..Len(h.delivered) : h.delivered[j] # h.delivered[k]

Issued(c, s) ==
    \E k \in 1..Len(h.stateCmds[c]) : h.stateCmds[c][k] = s

EnableConfirmed(p) ==
    /\ h.portSeen[p] # <<>>
    /\ h.portSeen[p][Len(h.portSeen[p])].wanted
    /\ hw.port[p]

\* C5: during startup a state-set command is issued only when the steps its
\* target state needs are complete: idle after both tunnels; executing
\* after both tunnels, the six ports confirmed enabled, and the buffers of
\* ports 73 and 201 allocated.
C5_StartupPreconditions ==
    pc <= LoopIdx =>
        \A c \in Comps :
          /\ Issued(c, "Idle") => hw.tunnels = Tunnels
          /\ Issued(c, "Executing") =>
                /\ hw.tunnels = Tunnels
                /\ \A p \in Ports : EnableConfirmed(p)
                /\ \A p \in BufferPorts : hw.buf[p] = "allocated"

C5_Witness ==
    /\ pc <= LoopIdx
    /\ \A c \in Comps : Issued(c, "Executing")

C8_EveryFailureFatal ==
    h.ignored = 0

\* C9, as stated: no flag of appctx is read or written by a context that
\* does not hold handler_lock.
C9_FlagsUnderLock ==
    h.unlocked = {}

\* The states of the startup sequence, by what has been achieved.
Reached(k) ==
    CASE k = 0 -> TRUE
      [] k = 1 -> \A c \in Comps : hw.handle[c] = "live"
      [] k = 2 -> ConfigItems \subseteq h.configured
      [] k = 3 -> hw.tunnels = Tunnels
      [] k = 4 -> \A c \in Comps : h.confirmed[c] \in {"Idle", "Executing"}
      [] k = 5 -> \A p \in Ports : EnableConfirmed(p)
      [] k = 6 -> \A p \in BufferPorts : hw.buf[p] = "allocated"
      [] k = 7 -> \A c \in Comps : h.confirmed[c] = "Executing"
      [] k = 8 -> hw.capturing

\* The first sign of the work that leads to state k.
Started(k) ==
    CASE k = 1 -> \E c \in Comps : hw.handle[c] = "live"
      [] k = 2 -> h.configured # {}
      [] k = 3 -> hw.tunnels # {}
      [] k = 4 -> \E c \in Comps : h.stateCmds[c] # <<>>
      [] k = 5 -> \E p \in Ports : Len(h.portCmds[p]) >= 2
      [] k = 6 -> \E p \in BufferPorts : hw.buf[p] = "allocated"
      [] k = 7 -> \E c \in Comps : Issued(c, "Executing")
      [] k = 8 -> hw.capturing

\* 0 Unconfigured, 1 HandlesAcquired, 2 Configured, 3 Tunneled, 4 Idle,
\* 5 PortsEnabled, 6 BuffersAllocated, 7 Executing, 8 Capturing
OrchState ==
    CHOOSE k \in 0..8 : Reached(k) /\ \A j \in (k + 1)..8 : ~Reached(j)

\* C10: startup goes through Unconfigured, HandlesAcquired, Configured,
\* Tunneled, Idle, PortsEnabled, BuffersAllocated, Executing, Capturing in
\* this order: a state is reached only with all the states before it, the
\* work for a state starts only in the state before it, and each step
\* leaves the state as it is or moves to the next one.
C10_StartupOrder ==
    /\ [](pc <= LoopIdx =>
            \A k \in 1..8 : /\ Reached(k) => Reached(k - 1)
                            /\ Started(k) => Reached(k - 1))
    /\ [][pc' <= LoopIdx => OrchState' \in {OrchState, OrchState + 1}]_vars

C10_Witness ==
    /\ Alive
    /\ pc = LoopIdx
    /\ OrchState = 8

\* The phases of the cleanup, complete for every component: 1 capture
\* stopped, 2 six ports flushed, 3 six ports confirmed disabled, 4 both
\* buffers freed, 5 every component back in Idle, 6 every component in
\* Loaded, 7 every handle released.
TdDone(k) ==
    CASE k = 1 -> ~hw.capturing
      [] k = 2 -> Len(h.flushCmds) = 6 /\ hw.flushReq = {}
      [] k = 3 -> \A p \in Ports : Len(h.portSeen[p]) = 3 /\ ~hw.port[p]
      [] k = 4 -> \A p \in BufferPorts : hw.buf[p] = "freed"
      [] k = 5 -> \A c \in Comps :
                    /\ Len(h.stateCmds[c]) >= 3
                    /\ Len(h.stateCmds[c]) = 3 =>
                          (hw.stateReq[c] = "none" /\ hw.state[c] = "Idle")
      [] k = 6 -> \A c \in Comps :
                    /\ Len(h.stateCmds[c]) = 4
                    /\ hw.stateReq[c] = "none"
                    /\ hw.state[c] = "Loaded"
      [] k = 7 -> \A c \in Comps : hw.handle[c] = "freed"

\* The first command of phase k has been issued.
TdStarted(k) ==
    CASE k = 2 -> h.flushCmds # <<>>
      [] k = 3 -> \E p \in Ports : Len(h.portCmds[p]) >= 3
      [] k = 4 -> \E p \in BufferPorts : hw.buf[p] = "freed"
      [] k = 5 -> \E c \in Comps : Len(h.stateCmds[c]) >= 3
      [] k = 6 -> \E c \in Comps : Len(h.stateCmds[c]) >= 4
      [] k = 7 -> \E c \in Comps : hw.handle[c] = "freed"

\* C11, as stated: after the loop the cleanup phases run in order, a phase
\* starting only when the phase before it is complete for every component,
\* and a flush command is issued only when every earlier flush has
\* completed.
C11_TeardownOrder ==
    pc > LoopIdx =>
        /\ \A k \in 2..7 : TdStarted(k) => TdDone(k - 1)
        /\ h.flushCmds # <<>> =>
              hw.flushReq \subseteq {h.flushCmds[Len(h.flushCmds)]}

\* C11 with every unchecked call succeeding and every uninitialised local
\* reading as zero.
TeardownOrderNoFault ==
    (h.ignored = 0 /\ h.garbage = 0) => C11_TeardownOrder

\* C12, as stated: the camera-ready wait gives up: the process is not alive
\* in the wait once the flag has been found unset more often than the
\* retry budget.
C12_BoundedCameraWait ==
    At("WaitCameraReady") => loc.n <= MaxPolls

\* Position of a lifecycle state: Loaded, Idle, Executing.
Rank(s) ==
    CASE s = "Loaded" -> 0
      [] s = "Idle" -> 1
      [] s = "Executing" -> 2

\* The global states the pipeline is driven through, in order.
GlobalTargets ==
    <<"Idle", "Executing", "Idle", "Loaded">>

\* C13, as stated: a component is sent towards global state k + 1 only when
\* every component has been sent to global state k and is in it, and no
\* two components are ever in non-adjacent lifecycle states.
C13_PipelineState ==
    /\ \A c, d \in Comps :
         Rank(hw.state[c]) - Rank(hw.state[d]) \in {-1, 0, 1}
    /\ \A c, d \in Comps : \A k \in 1..3 :
         Len(h.stateCmds[c]) > k =>
            /\ Len(h.stateCmds[d]) >= k
            /\ Len(h.stateCmds[d]) = k =>
                  (hw.state[d] = GlobalTargets[k] /\ hw.stateReq[d] = "none")

\* C13 with every OMX_GetState succeeding.
PipelineStateNoFault ==
    h.ignored = 0 => C13_PipelineState

\* The hardware-control calls main() has made so far.
CallsMade ==
    <<pc, h.stateCmds, h.portCmds, h.flushCmds, hw.tunnels, hw.buf, hw.handle>>

\* C14: the control thread holds handler_lock only between the semaphore
\* wait and post of block_until_flushed, where it tests and clears the
\* flushed flag; while it holds the lock it makes no hardware-control call
\* and does not go on to the sleep; and a handler waiting for the lock is
\* always admitted in the end (or the process has ended).
C14_LockOnlyAroundFlags ==
    /\ [](lock = "main" => (At("WaitFlushed") /\ sub \in {"cs", "post"}))
    /\ [][lock = "main" => (CallsMade' = CallsMade /\ hw.outstanding' <= hw.outstanding)]_vars
    /\ (cb.stage = "wait") ~> (cb.stage # "wait")

C14_Witness ==
    /\ lock = "main"
    /\ cb.stage = "wait"
    /\ ctx.flushed = 0

\* C15, as stated: a buffer is freed only when its port is disabled and its
\* owning component has been sent back to Idle and is no longer Executing.
C15_FreeAfterIdle ==
    \A p \in BufferPorts :
      hw.buf[p] = "freed" =>
         /\ ~hw.port[p]
         /\ Len(h.stateCmds[PortOwner(p)]) >= 3
         /\ hw.state[PortOwner(p)] # "Executing"

\* C15, amended: a buffer is freed only after its port has been confirmed
\* disabled, and before its owning component is sent back to Idle: the
\* Idle command of the cleanup is issued only with the buffer freed.
C15_FreeAfterDisable ==
    \A p \in BufferPorts :
      /\ hw.buf[p] = "freed" =>
            /\ Len(h.portSeen[p]) = 3
            /\ ~h.portSeen[p][3].wanted
            /\ ~hw.port[p]
      /\ Len(h.stateCmds[PortOwner(p)]) >= 3 => hw.buf[p] = "freed"

C15_Witness ==
    /\ Alive
    /\ \A p \in BufferPorts :
         /\ hw.buf[p] = "freed"
         /\ Len(h.stateCmds[PortOwner(p)]) = 2
         /\ hw.state[PortOwner(p)] = "Executing"

\* C16, as stated: block_until_state_changed returns only when the
\* component is in the requested state.
C16_StateWait ==
    [][(At("WaitState") /\ pc' = pc + 1) => hw.state[Cur.comp] = Cur.arg]_vars

\* C16 with every OMX_GetState succeeding.
StateWaitNoFault ==
    [][(At("WaitState") /\ pc' = pc + 1 /\ h.ignored = 0)
          => hw.state[Cur.comp] = Cur.arg]_vars

\* C17: the state commands a component has received are an initial part of
\* Idle, Executing, Idle, Loaded, all four once main() has returned; and
\* each command targets a state next to the one the last wait for that
\* component confirmed.
C17_Transitions ==
    /\ [](\A c \in Comps :
            /\ Len(h.stateCmds[c]) <= Len(GlobalTargets)
            /\ h.stateCmds[c] = SubSeq(GlobalTargets, 1, Len(h.stateCmds[c]))
            /\ exited = "status0" => h.stateCmds[c] = GlobalTargets)
    /\ [][\A c \in Comps :
            h.stateCmds[c]' # h.stateCmds[c] =>
               Rank(h.stateCmds[c]'[Len(h.stateCmds[c]')]) - Rank(h.confirmed[c])
                   \in {-1, 1}]_vars

C17_Witness ==
    /\ exited = "status0"
    /\ \A c \in Comps : h.stateCmds[c] = GlobalTargets /\ hw.state[c] = "Loaded"

\* The step is the first query of a wait for a disable, on a port whose
\* flag is already false.
FirstPollOfDisabled ==
    /\ InPortWait
    /\ ~WTarget
    /\ loc.i = 0
    /\ ~hw.port[WPort]
    /\ loc'.i = 1

\* C18: a disable command on a port whose flag is false leaves the flag
\* false, and the wait for it ends with its first query: after that query
\* the loop condition is false and the loop has not slept.
C18_DisableIdempotent ==
    /\ [][\A p \in Ports :
            (~hw.port[p] /\ hw.portReq[p] = "disable") => ~hw.port[p]']_vars
    /\ [][FirstPollOfDisabled =>
            /\ pc' = pc
            /\ ~loc'.bEnabled
            /\ ~SleepsAfterPoll(loc'.bEnabled, WTarget)
            /\ ~PortLoopCond(loc'.i, loc'.bEnabled, WTarget)]_vars

C18_Witness ==
    /\ InPortWait
    /\ ~WTarget
    /\ loc.i = 1
    /\ ~loc.bEnabled
    /\ hw.portReq[WPort] = "disable"
    /\ ~hw.port[WPort]

\* The event flags of appctx.
Flags ==
    {"flushed", "camera_ready", "encoder_ready"}

\* C19, as stated: while the process runs, a flag changes only in the
\* critical section of a callback.
C19_FlagsWrittenByCallbacksOnly ==
    [][(ctx' # ctx /\ exited' = "no") => cb.stage = "cs"]_vars

\* C19, amended: a flag is raised only in the critical section of the
\* callback for its event; the control thread only clears: flushed in the
\* critical section of block_until_flushed, encoder.ready in the capture
\* loop when it asks for the next buffer, and camera.ready never.
C19_FlagsRaisedByCallbacksOnly ==
    [][\A f \in Flags :
         /\ (ctx[f] = 0 /\ ctx'[f] = 1) =>
               /\ cb.stage = "cs"
               /\ lock = "cb"
               /\ HandlerFlag(cb) = f
               /\ pc' = pc
               /\ sub' = sub
         /\ (ctx[f] = 1 /\ ctx'[f] = 0 /\ exited' = "no") =>
               /\ cb' = cb
               /\ f # "camera_ready"
               /\ f = "flushed" => (At("WaitFlushed") /\ sub = "cs" /\ lock = "main")
               /\ f = "encoder_ready" => (At("DrainLoop") /\ sub = "fill")]_vars

C19_Witness ==
    /\ At("WaitFlushed")
    /\ sub = "post"
    /\ loc.quit = 1
    /\ ctx.flushed = 0
    /\ h.garbage = 0
    /\ Len(h.sink) >= 2

\* A fill request for the encoder output buffer has been issued.
FillIssued ==
    h.delivered # <<>> \/ hw.outstanding > 0

\* The statements main() has run so far.
StepsDone ==
    1..(IF pc - 1 < Len(Program) THEN pc - 1 ELSE Len(Program))

\* C20, as stated: between the allocation of a buffer and its first fill or
\* empty request there is no state transition and no capture start, and
\* every allocated buffer has received a request when main() returns.
C20_AllocThenRequest ==
    /\ (hw.buf[201] = "allocated" /\ ~FillIssued) =>
          /\ \A c \in Comps : ~Issued(c, "Executing")
          /\ ~hw.capturing
    /\ exited = "status0" =>
          \A p \in BufferPorts :
            \E k \in StepsDone :
              Program[k].port = p /\ Program[k].op \in {"DrainLoop", "EosFill"}

\* C20, amended: the first fill request for the buffer of port 201 is
\* issued only in the capture loop, after every component has been sent to
\* Executing and capture has been switched on, and the buffer is freed only
\* after it; the buffer of port 73 is never handed to the camera: the
\* statements that name port 73 only dump, command, query, allocate, flush
\* and free.
C20_FirstFillInLoop ==
    /\ FillIssued =>
          /\ hw.buf[201] # "none"
          /\ pc >= LoopIdx
          /\ \A c \in Comps : Issued(c, "Executing")
    /\ (pc = LoopIdx /\ Alive) => hw.capturing
    /\ hw.buf[201] = "freed" => h.delivered # <<>>
    /\ \A k \in StepsDone :
          Program[k].port = 73 =>
             Program[k].op \in {"DumpPort", "PortCmd", "WaitPort", "GetParameter",
                                "AllocateBuffer", "Flush", "FreeBuffer"}

C20_Witness ==
    /\ Alive
    /\ pc = LoopIdx
    /\ hw.outstanding = 1
    /\ h.delivered = <<>>
    /\ hw.capturing
    /\ hw.buf[73] = "allocated"

\* The ports that are an end of a tunnel.
TunneledPorts ==
    UNION { {t[1], t[2]} : t \in hw.tunnels }

\* The statements main() has reached so far.
StepsReached ==
    1..(IF pc < Len(Program) THEN pc ELSE Len(Program))

\* C21: once both tunnels are set up, ports 70, 71, 200 and 240 are the
\* tunneled ports for the rest of the run, and every allocate-buffer,
\* free-buffer and fill-buffer call main() reaches is for port 73 or 201,
\* neither of which is tunneled.
C21_TunneledNeverBuffered ==
    /\ (\E c \in Comps : h.stateCmds[c] # <<>>) =>
          TunneledPorts = {70, 71, 200, 240}
    /\ \A k \in StepsReached :
          Program[k].op \in {"AllocateBuffer", "FreeBuffer", "DrainLoop", "EosFill"} =>
             /\ Program[k].port \in BufferPorts
             /\ Program[k].port \notin TunneledPorts
    /\ \A p \in BufferPorts : hw.buf[p] # "none" => p \notin TunneledPorts

C21_Witness ==
    /\ exited = "status0"
    /\ TunneledPorts = {70, 71, 200, 240}
    /\ \A p \in BufferPorts : hw.buf[p] = "freed"
    /\ h.sink # <<>>

\* The ports a component reports over the four port groups.
ReportedPorts(c) ==
    UNION { { PortGroup(c, t)[j] : j \in 1..Len(PortGroup(c, t)) } :
              t \in {"Audio", "Video", "Image", "Other"} }

\* init_component_handle has returned for component c.
InitReturned(c) ==
    \E k \in 1..Len(Program) :
       Program[k].op = "InitHandle" /\ Program[k].comp = c /\ pc > k

\* C22: when init_component_handle has returned for a component, every
\* port the component reports has been sent a disable command and a port
\* definition query has confirmed it disabled; at the return itself every
\* such port is disabled.
C22_InitDisablesPorts ==
    /\ [](\A c \in Comps : InitReturned(c) =>
            \A p \in ReportedPorts(c) :
              /\ h.portCmds[p] # <<>>
              /\ h.portCmds[p][1] = "disable"
              /\ h.portSeen[p] # <<>>
              /\ h.portSeen[p][1].queried
              /\ ~h.portSeen[p][1].wanted
              /\ ~h.portSeen[p][1].seen
              /\ ~h.portSeen[p][1].flag)
    /\ [][(At("InitHandle") /\ pc' = pc + 1) =>
            \A p \in ReportedPorts(Cur.comp) : ~hw.port[p]]_vars

C22_Witness ==
    /\ \A c \in Comps : InitReturned(c)
    /\ Cur.op = "DumpPort"
    /\ \A p \in Ports : ~hw.port[p] /\ Len(h.portCmds[p]) = 1

\* A step of the teardown part of main() that issues a flush, a port
\* command, a free-buffer, a state-set or a free-handle call.
TeardownCallIssued ==
    /\ pc > LoopIdx
    /\ \/ h'.flushCmds # h.flushCmds
       \/ h'.portCmds # h.portCmds
       \/ h'.stateCmds # h.stateCmds
       \/ hw'.buf # hw.buf
       \/ hw'.handle # hw.handle

\* C23, as stated: once a call of a startup or teardown step has failed,
\* the process is gone and no flush, port disable, free-buffer, state-set or
\* free-handle call of the teardown is issued.
C23_NoTeardownAfterFailure ==
    [][(h.ignored > 0 \/ exited # "no") => ~TeardownCallIssued]_vars

\* What die() and omx_die() give: nothing is issued once the process has
\* ended.
NoTeardownAfterDie ==
    [][exited # "no" => UNCHANGED <<hw, h>>]_vars

\* C24, as stated: exit status 0 is returned only by a run in which no
\* hardware call failed and no error event arrived, and only after every
\* handle has been released.
C24_ExitStatus ==
    exited = "status0" =>
       /\ h.ignored = 0
       /\ ~h.errSeen
       /\ \A c \in Comps : hw.handle[c] = "freed"

\* Exit status 0 where every call succeeded.
ExitStatusNoFault ==
    (exited = "status0" /\ h.ignored = 0) =>
       /\ ~h.errSeen
       /\ \A c \in Comps : hw.handle[c] = "freed"
       /\ \A p \in BufferPorts : hw.buf[p] = "freed"

\* The step of main() that runs the body of if(ctx.encoder.ready) with a
\* ready buffer and does not die in it.
ReadyIteration ==
    /\ At("DrainLoop")
    /\ sub = "call"
    /\ ctx.encoder_ready # 0
    /\ pc' # pc \/ sub' = "fill"

\* C25, as stated: the loop never leaves with the current ready buffer
\* unwritten: when the loop is left, the last buffer delivered is the last
\* buffer written.
C25_WrittenBeforeExit ==
    LoopExited =>
        /\ h.sink # <<>>
        /\ h.sink[Len(h.sink)] = Len(h.delivered)

\* C25, amended: in an iteration that finds the output buffer ready the
\* boundary test comes before the write. When the test holds the loop is
\* left with the ready buffer unwritten; when it does not hold the whole
\* payload is written in that iteration, before the next fill is asked for.
C25_ExitTestBeforeWrite ==
    [][ReadyIteration =>
          IF ShouldExit(lp'.quit_detected, lp'.quit_in_keyframe, hw.nFlags)
          THEN /\ pc' = pc + 1
               /\ h'.sink = h.sink
               /\ \A k \in 1..Len(h.sink) : h.sink[k] # Len(h.delivered)
          ELSE /\ pc' = pc
               /\ sub' = "fill"
               /\ h'.sink = Append(h.sink, Len(h.delivered))
               /\ hw'.outstanding = 0]_vars

C25_Witness ==
    /\ LoopExited
    /\ Cur.op = "Signal"
    /\ Len(h.delivered) = MaxFills
    /\ Len(h.sink) = MaxFills - 1

\* Index of the end-of-stream hand-back in Program.
EosIdx ==
    CHOOSE k \in 1..Len(Program) : Program[k].op = "EosFill"

\* The step that issues the end-of-stream OMX_FillThisBuffer.
EosIssued ==
    /\ At("EosFill")
    /\ pc' = pc + 1

\* C26, as stated: the end-of-stream fill request comes first; no
\* stop-capture, flush or port disable of the shutdown precedes it.
C26_EosBeforeStop ==
    [][EosIssued =>
          /\ hw.capturing
          /\ h.flushCmds = <<>>
          /\ \A p \in Ports : Len(h.portCmds[p]) = 2]_vars

\* C26, amended: after the loop is left capture is stopped first, and only
\* then is the output buffer marked end-of-stream and handed back to the
\* encoder, once: the hand-back is the only fill request between the loop
\* and the end of the run, and no flush or port disable of the shutdown
\* precedes it.
C26_StopThenEos ==
    /\ [][EosIssued =>
            /\ LoopExited
            /\ ~hw.capturing
            /\ h.flushCmds = <<>>
            /\ \A p \in Ports : Len(h.portCmds[p]) = 2
            /\ hw.outstanding = 0
            /\ hw'.outstanding = 1]_vars
    /\ [][(hw.capturing /\ ~hw'.capturing) => (LoopExited /\ pc' < EosIdx + 1)]_vars
    /\ [][(LoopExited /\ ~EosIssued) => hw'.outstanding <= hw.outstanding]_vars
    /\ [](\A k \in 1..Len(Program) : Program[k].op = "EosFill" => k = EosIdx)

C26_Witness ==
    /\ Alive
    /\ pc = EosIdx + 1
    /\ hw.outstanding = 1
    /\ ~hw.capturing
    /\ h.flushCmds = <<>>

\* The step in which block_until_flushed returns.
FlushedReturns ==
    /\ At("WaitFlushed")
    /\ pc' = pc + 1

\* C27, as stated: block_until_flushed returns only when it has found
\* flushed set while holding handler_lock and has cleared it, whatever its
\* local quit held at entry; quit becomes 1 in no other way.
C27_ReturnsOnlyOnFlushed ==
    /\ [][FlushedReturns => loc.quit = 1]_vars
    /\ [][(At("WaitFlushed") /\ loc.quit # 1 /\ loc'.quit = 1) =>
            (lock = "main" /\ ctx.flushed # 0 /\ ctx'.flushed = 0)]_vars

\* C27 for the entries at which the uninitialised quit reads as zero.
ReturnsOnlyOnFlushedNoGarbage ==
    /\ [][(FlushedReturns /\ h'.garbage = h.garbage) => loc.quit = 1]_vars
    /\ [][(At("WaitFlushed") /\ loc.quit # 1 /\ loc'.quit = 1) =>
            (lock = "main" /\ ctx.flushed # 0 /\ ctx'.flushed = 0)]_vars

\* ------------------------------------------- the camera component object
\* omx_camera.c: the state methods camera_create() puts behind the common
\* interface. Each sends one OMX_CommandStateSet and waits in
\* block_until_state_changed; cmd is the state it sends, wait the state it
\* waits for.

camera_idle_state ==
    [name |-> "idle_state", cmd |-> "Idle", wait |-> "Idle"]

camera_excute_state ==
    [name |-> "excute_state", cmd |-> "Executing", wait |-> "Executing"]

camera_load_state ==
    [name |-> "load_state", cmd |-> "Idle", wait |-> "Idle"]

\* The interface of a created camera object, driven through the lifecycle:
\* idle_state, excute_state, idle_state, load_state.
CameraCalls ==
    << camera_idle_state, camera_excute_state, camera_idle_state,
       camera_load_state >>

\* The camera object after camera_create() and init_handle(): the handle is
\* live, the component is Loaded and nothing else has been done.
CamInit ==
    /\ pc = 1
    /\ sub = "call"
    /\ exited = "no"
    /\ loc = LocInit
    /\ \E ps \in InitPortStates :
         hw = [handle |-> [c \in Comps |-> IF c = "camera" THEN "live" ELSE "none"],
               state |-> [c \in Comps |-> "Loaded"],
               stateReq |-> [c \in Comps |-> "none"],
               port |-> ps,
               portReq |-> [p \in Ports |-> "none"],
               flushReq |-> {},
               tunnels |-> {},
               buf |-> [p \in BufferPorts |-> "none"],
               capturing |-> FALSE,
               cbRequested |-> FALSE,
               camReadyPending |-> FALSE,
               outstanding |-> 0,
               nFlags |-> 0]
    /\ ctx = CtxInit
    /\ lock = "free"
    /\ cb = CbIdle
    /\ want_quit = 0
    /\ lp = LpInit
    /\ h = [delivered |-> <<>>,
            sink |-> <<>>,
            latched |-> 0,
            stateCmds |-> [c \in Comps |-> <<>>],
            portCmds |-> [p \in Ports |-> <<>>],
            portSeen |-> [p \in Ports |-> <<>>],
            flushCmds |-> <<>>,
            confirmed |-> [c \in Comps |-> "Loaded"],
            configured |-> {},
            unlocked |-> {},
            ignored |-> 0,
            garbage |-> 0,
            errSeen |-> FALSE]

CamAt(s) ==
    /\ Alive
    /\ pc <= Len(CameraCalls)
    /\ sub = s

\* OMX_SendCommand(omx_camera.interface.handle, OMX_CommandStateSet, ..),
\* checked.
CamStateSet ==
    /\ CamAt("call")
    /\ \E st \in Status :
         IF st = "ok"
         THEN /\ hw' = [hw EXCEPT !.stateReq["camera"] = CameraCalls[pc].cmd]
              /\ h' = [h EXCEPT !.stateCmds["camera"] = Append(@, CameraCalls[pc].cmd)]
              /\ Goto("wait")
              /\ UNCHANGED <<exited, loc, ctx, lock, cb, want_quit, lp>>
         ELSE die

\* block_until_state_changed of omx_camera.h, one iteration: OMX_GetState,
\* status not looked at.
CamStatePoll ==
    /\ CamAt("wait")
    /\ StateLoopCond(loc.i, loc.eState, CameraCalls[pc].wait)
    /\ \E st \in UncheckedStatus :
         IF st = "ok"
         THEN /\ loc' = [loc EXCEPT !.i = 1, !.eState = hw.state["camera"]]
              /\ UNCHANGED h
         ELSE /\ \E g \in States \cup {"Garbage"} :
                   loc' = [loc EXCEPT !.i = 1,
                             !.eState = IF @ = "Undef" THEN g ELSE @]
              /\ h' = [h EXCEPT !.ignored = @ + 1]
    /\ UNCHANGED <<pc, sub, exited, hw, ctx, lock, cb, want_quit, lp>>

\* The method returns.
CamStateReturn ==
    /\ CamAt("wait")
    /\ ~StateLoopCond(loc.i, loc.eState, CameraCalls[pc].wait)
    /\ h' = [h EXCEPT !.confirmed["camera"] = CameraCalls[pc].wait]
    /\ Advance
    /\ UNCHANGED <<exited, hw, ctx, lock, cb, want_quit, lp>>

CamNext ==
    \/ CamStateSet
    \/ CamStatePoll
    \/ CamStateReturn
    \/ HwStateDone("camera")
    \/ EventError
    \/ CbLock
    \/ CbBody
    \/ CbPost

CamSpec ==
    CamInit /\ [][CamNext]_vars

\* The step in which load_state sends its command.
LoadStateSends ==
    /\ CamAt("call")
    /\ CameraCalls[pc].name = "load_state"
    /\ sub' = "wait"

\* load_state has returned.
LoadStateReturned ==
    /\ Alive
    /\ pc > Len(CameraCalls)
    /\ CameraCalls[pc - 1].name = "load_state"

\* C28, as stated: load_state sends the state-set command with target
\* Loaded and returns only when the camera reports Loaded, so that
\* idle_state followed by load_state takes an Executing camera through Idle
\* to Loaded.
C28_LoadStateLoaded ==
    /\ [][LoadStateSends => hw'.stateReq["camera"] = "Loaded"]_vars
    /\ [](LoadStateReturned =>
            /\ h.confirmed["camera"] = "Loaded"
            /\ h.ignored = 0 => hw.state["camera"] = "Loaded")

\* The fill requests issued so far, up to the end-of-stream hand-back: one
\* for every buffer delivered and one for the request still outstanding.
FillsInLoop ==
    Len(h.delivered) + hw.outstanding

\* C29: the loop pairs every write with one fill request. Before the first
\* request nothing is written; between iterations one more request has
\* been issued than buffers written; inside an iteration the request for
\* the buffer just written is the only one pending. When the loop is left
\* at a boundary the ready buffer is the one delivered buffer that is not
\* written, and no request has been issued for it.
C29_ExitWithoutDraining ==
    /\ (Alive /\ pc = LoopIdx) =>
          /\ WrittenInOrder
          /\ sub = "call" =>
                \/ FillsInLoop = Len(h.sink) + 1
                \/ /\ FillsInLoop = 0
                   /\ h.sink = <<>>
                   /\ lp.need_next_buffer_to_be_filled = 1
          /\ sub = "fill" =>
                FillsInLoop = Len(h.sink) +
                   (IF lp.need_next_buffer_to_be_filled = 1 THEN 0 ELSE 1)
          /\ sub = "fill2" =>
                /\ FillsInLoop = Len(h.sink)
                /\ lp.need_next_buffer_to_be_filled = 0
    /\ (LoopExited /\ pc <= EosIdx) =>
          /\ WrittenInOrder
          /\ Len(h.sink) = Len(h.delivered) - 1
          /\ hw.outstanding = 0
          /\ FillsInLoop = Len(h.sink) + 1

C29_Witness ==
    /\ Alive
    /\ LoopExited
    /\ pc <= EosIdx
    /\ Len(h.sink) = 2
    /\ Len(h.delivered) = 3
    /\ hw.outstanding = 0

\* C30: the shutdown latch is taken once. quit_detected goes from 0 to 1
\* only in an iteration of the loop that finds a buffer ready with
\* want_quit set, and the first such iteration takes it; that iteration
\* stores the SYNCFRAME bit of its buffer in quit_in_keyframe and does not
\* leave the loop; from then on neither variable changes while the process
\* lives.
C30_LatchOnce ==
    /\ [](lp.quit_detected \in {0, 1})
    /\ [](lp.quit_detected = 1 =>
            /\ h.latched >= 1
            /\ lp.quit_in_keyframe = h.delivered[h.latched])
    /\ [][(lp.quit_detected = 0 /\ lp'.quit_detected = 1) =>
            /\ ReadyIteration
            /\ want_quit # 0
            /\ lp'.quit_in_keyframe = hw.nFlags
            /\ h'.latched = Len(h.delivered)
            /\ pc' = pc]_vars
    /\ [][(ReadyIteration /\ want_quit # 0) => lp'.quit_detected = 1]_vars
    /\ [][(lp.quit_detected = 1 /\ exited' = "no") =>
            /\ lp'.quit_detected = 1
            /\ lp'.quit_in_keyframe = lp.quit_in_keyframe
            /\ h'.latched = h.latched]_vars

C30_Witness ==
    /\ Alive
    /\ LoopExited
    /\ lp.quit_detected = 1
    /\ lp.quit_in_keyframe = OMX_BUFFERFLAG_SYNCFRAME
    /\ h.latched = 1
    /\ Len(h.delivered) = 3

\* The step that issues an OMX_CommandFlush.
FlushIssued ==
    /\ At("Flush")
    /\ pc' = pc + 1

\* C31, as stated: flushed is 0 and no earlier flush is in progress
\* whenever a flush command is issued, and a flush wait returns only when
\* the flush command before it has completed.
C31_FlushMatched ==
    /\ [][FlushIssued => (ctx.flushed = 0 /\ hw.flushReq = {})]_vars
    /\ [][FlushedReturns => Program[pc - 1].port \notin hw.flushReq]_vars

\* C31 for the runs in which the uninitialised quit reads as zero.
FlushMatchedNoGarbage ==
    /\ [][(FlushIssued /\ h.garbage = 0) =>
            (ctx.flushed = 0 /\ hw.flushReq = {})]_vars
    /\ [][(FlushedReturns /\ h'.garbage = 0) =>
            Program[pc - 1].port \notin hw.flushReq]_vars

\* The step in which a handler runs the body of its critical section.
HandlerBody ==
    /\ Alive
    /\ cb.stage = "cs"
    /\ cb'.stage = "post"

\* C32: in its critical section the event handler sets flushed when the
\* event is the completion of a flush command and camera-ready when the
\* event is the change of the camera device number; for every other
\* command-complete or parameter-changed event it leaves every flag as it
\* is. It runs the section holding the lock, no step of a handler lowers a
\* flag, and the lock is free when the handler returns.
C32_EventEffects ==
    /\ [][HandlerBody =>
            /\ lock = "cb"
            /\ IF cb.ev = "CmdComplete" /\ cb.data = "Flush"
               THEN ctx' = [ctx EXCEPT !.flushed = 1]
               ELSE IF cb.ev = "ParamChanged" /\ cb.data = "CameraDeviceNumber"
               THEN ctx' = [ctx EXCEPT !.camera_ready = 1]
               ELSE IF cb.ev \in {"CmdComplete", "ParamChanged"}
               THEN ctx' = ctx
               ELSE TRUE]_vars
    /\ [][(cb.stage # "idle" /\ cb' # cb /\ exited' = "no") =>
            \A f \in DOMAIN ctx : ctx'[f] >= ctx[f]]_vars
    /\ [][(cb.stage = "post" /\ cb'.stage = "idle" /\ exited' = "no") =>
            lock' = "free"]_vars

C32_Witness ==
    /\ Alive
    /\ cb.stage = "post"
    /\ cb.ev = "CmdComplete"
    /\ cb.data = "Port"
    /\ ctx.flushed = 0
    /\ h.flushCmds # <<>>

\* C33: main() reads the output buffer (flags, offset, length, payload) in
\* the loop only when it has found encoder.ready set, and writes its flags
\* after the loop only at the end-of-stream hand-back; at both places a
\* buffer has been given back by the encoder and no fill request is
\* outstanding.
C33_TouchOnlyWhenOwned ==
    /\ (Alive /\ pc = LoopIdx /\ ctx.encoder_ready # 0) =>
          /\ hw.outstanding = 0
          /\ h.delivered # <<>>
          /\ sub \in {"call", "fill"}
    /\ At("EosFill") =>
          /\ hw.outstanding = 0
          /\ h.delivered # <<>>

C33_Witness ==
    /\ Alive
    /\ pc = LoopIdx
    /\ sub = "call"
    /\ ctx.encoder_ready # 0
    /\ hw.outstanding = 0
    /\ Len(h.delivered) = 2
    /\ Len(h.sink) = 1

\* The step of the loop that issues OMX_FillThisBuffer.
LoopRequest ==
    /\ At("DrainLoop")
    /\ hw'.outstanding = hw.outstanding + 1

\* C34: the loop clears encoder.ready before it issues the fill request
\* whose completion sets it: the flag is 0 when the request is issued, it
\* goes from set to clear only when the buffer it announced has been
\* written and nothing is outstanding, and once a buffer has been given
\* back and its handler has returned the loop finds the flag set.
C34_NoLostNotification ==
    /\ [][LoopRequest => ctx.encoder_ready = 0]_vars
    /\ [][(ctx.encoder_ready # 0 /\ ctx'.encoder_ready = 0 /\ exited' = "no") =>
            /\ Len(h.sink) = Len(h.delivered)
            /\ hw.outstanding = 0]_vars
    /\ []((Alive /\ pc = LoopIdx /\ sub = "call" /\ h.delivered # <<>>
             /\ hw.outstanding = 0 /\ cb.stage = "idle") =>
            ctx.encoder_ready # 0)

C34_Witness ==
    /\ Alive
    /\ pc = LoopIdx
    /\ sub = "fill2"
    /\ ctx.encoder_ready = 0
    /\ hw.outstanding = 0
    /\ Len(h.sink) = 2

\* Index of the camera-ready wait in Program.
WaitIdx ==
    CHOOSE k \in 1..Len(Program) : Program[k].op = "WaitCameraReady"

\* A tunnel, a state-set command, a port enable or a buffer allocation has
\* been issued.
PipelineBuilt ==
    \/ hw.tunnels # {}
    \/ \E c \in Comps : h.stateCmds[c] # <<>>
    \/ \E p \in Ports : \E k \in 1..Len(h.portCmds[p]) : h.portCmds[p][k] = "enable"
    \/ \E p \in BufferPorts : hw.buf[p] # "none"

\* C35: nothing of the pipeline is built before the camera-ready wait has
\* been left, the wait is left only on reading the flag as set, and the
\* flag is set only by the handler of the parameter-changed event for the
\* camera device number, which the camera raises after the program has
\* asked for it.
C35_ReadyBeforePipeline ==
    /\ [](PipelineBuilt => pc > WaitIdx)
    /\ [][(At("WaitCameraReady") /\ pc' = pc + 1) =>
            /\ ctx.camera_ready = 1
            /\ hw.cbRequested
            /\ ~hw.camReadyPending]_vars
    /\ [][(ctx.camera_ready = 0 /\ ctx'.camera_ready # 0) =>
            /\ cb.stage = "cs"
            /\ cb.ev = "ParamChanged"
            /\ cb.data = "CameraDeviceNumber"]_vars

C35_Witness ==
    /\ Alive
    /\ pc = WaitIdx + 1
    /\ ctx.camera_ready = 1
    /\ ~PipelineBuilt

\* C36: the camera device number is set only after the callback for its
\* change has been asked for, so the camera announces the change every
\* time the number is set, and an announcement is pending or delivered
\* only to a program that has subscribed.
C36_CallbackBeforeDevice ==
    /\ [][(At("SetParameter") /\ Cur.arg = "CameraDeviceNumber" /\ pc' = pc + 1) =>
            /\ hw.cbRequested
            /\ <<"camera", 0, "RequestCallback">> \in h.configured
            /\ hw'.camReadyPending]_vars
    /\ [](<<"camera", 0, "CameraDeviceNumber">> \in h.configured =>
            <<"camera", 0, "RequestCallback">> \in h.configured)
    /\ []((hw.camReadyPending \/ cb.ev = "ParamChanged") => hw.cbRequested)

C36_Witness ==
    /\ Alive
    /\ hw.camReadyPending
    /\ hw.cbRequested
    /\ <<"camera", 0, "CameraDeviceNumber">> \in h.configured
    /\ ctx.camera_ready = 0

\* The encoder has stopped delivering without a buffer whose SYNCFRAME bit
\* differs from the latched one.
NoBoundaryDelivered ==
    /\ Len(h.delivered) = MaxFills
    /\ \/ h.latched = 0
       \/ \A k \in h.latched..Len(h.delivered) :
             h.delivered[k] = h.delivered[h.latched]

\* C37: once want_quit is set while the loop runs, the loop is left (or the
\* process has ended), unless the encoder stops delivering before a buffer
\* whose SYNCFRAME bit differs from the latched one; and no buffer with a
\* differing bit is written after the latch, so the loop does not drain
\* past the first such buffer.
C37_ShutdownLiveness ==
    /\ (Alive /\ pc = LoopIdx /\ want_quit # 0) ~>
          (LoopExited \/ ~Alive \/ NoBoundaryDelivered)
    /\ [](h.latched >= 1 =>
            \A k \in 1..Len(h.sink) :
               h.sink[k] >= h.latched => h.delivered[h.sink[k]] = h.delivered[h.latched])

C37_Witness ==
    /\ Alive
    /\ LoopExited
    /\ h.latched = 2
    /\ Len(h.delivered) = 3
    /\ h.delivered[2] # h.delivered[3]

\* The control thread is inside one of the polling waits.
InPollingWait ==
    /\ Alive
    /\ pc <= Len(Program)
    /\ \/ Cur.op \in {"WaitState", "WaitPort", "WaitFlushed"}
       \/ Cur.op = "InitHandle" /\ sub = "wait"

\* C38: with components that complete what they are asked and a control
\* thread that keeps polling, no state, port or flush wait lasts for ever:
\* every wait is followed by a call outside the waits, so the control
\* thread is outside the waits again and again (or the process has ended).
C38_WaitsTerminate ==
    []<>(~InPollingWait)

C38_Witness ==
    /\ Alive
    /\ pc <= Len(Program)
    /\ Cur.op = "WaitFlushed"
    /\ sub = "post"
    /\ loc.quit = 1
    /\ Len(h.flushCmds) = 6

\* The step in which block_until_port_changed returns.
PortWaitReturns ==
    /\ InPortWait
    /\ h'.portSeen # h.portSeen

\* C39, as stated: a wait returns only on the report it waits for: the
\* state wait only with the component in the requested state, the port
\* wait only with the port flag as requested, the flush wait only after a
\* flush completion has been seen; without the report the control thread
\* stays in the wait.
C39_NoReturnWithoutReport ==
    /\ [][(At("WaitState") /\ pc' = pc + 1) =>
            (loc.eState = Cur.arg /\ hw.state[Cur.comp] = Cur.arg)]_vars
    /\ [][PortWaitReturns => hw.port[WPort] = WTarget]_vars
    /\ [][FlushedReturns =>
            (loc.quit = 1 /\ Program[pc - 1].port \notin hw.flushReq)]_vars

\* C39 for the runs in which every OMX_GetState succeeds and the
\* uninitialised quit reads as zero.
NoReturnWithoutReportNoFault ==
    /\ [][(At("WaitState") /\ pc' = pc + 1 /\ h.ignored = 0 /\ h.garbage = 0) =>
            (loc.eState = Cur.arg /\ hw.state[Cur.comp] = Cur.arg)]_vars
    /\ [][PortWaitReturns => hw.port[WPort] = WTarget]_vars
    /\ [][(FlushedReturns /\ h'.garbage = 0) =>
            (loc.quit = 1 /\ Program[pc - 1].port \notin hw.flushReq)]_vars

\* The component a step of main() makes its call on, and for a tunnel the
\* component at the far end.
StepHandles ==
    IF Cur.op = "SetupTunnel"
    THEN {Cur.comp, PortOwner(TunnelDst(Cur.arg))}
    ELSE IF Cur.comp \in Comps THEN {Cur.comp} ELSE {}

\* C40, as stated: a handle goes from not acquired to live to released and
\* never back; OMX_GetHandle is called for a component that has no handle
\* and every other call is made on a live handle; and a handle is released
\* only with its component in Loaded, after its last state command, and its
\* buffers freed.
C40_HandleLifetime ==
    /\ [][\A c \in Comps :
            hw'.handle[c] # hw.handle[c] =>
               \/ hw.handle[c] = "none" /\ hw'.handle[c] = "live"
               \/ hw.handle[c] = "live" /\ hw'.handle[c] = "freed"]_vars
    /\ [](Alive /\ pc <= Len(Program) =>
            \A c \in StepHandles :
               IF Cur.op = "InitHandle" /\ sub = "call"
               THEN hw.handle[c] = "none"
               ELSE hw.handle[c] = "live")
    /\ [](\A c \in Comps : hw.handle[c] = "freed" =>
            /\ h.stateCmds[c] = GlobalTargets
            /\ h.confirmed[c] = "Loaded"
            /\ hw.state[c] = "Loaded"
            /\ \A p \in BufferPorts : PortOwner(p) = c => hw.buf[p] = "freed")

\* C40 for the runs in which every OMX_GetState succeeds.
HandleLifetimeNoFault ==
    /\ [][\A c \in Comps :
            hw'.handle[c] # hw.handle[c] =>
               \/ hw.handle[c] = "none" /\ hw'.handle[c] = "live"
               \/ hw.handle[c] = "live" /\ hw'.handle[c] = "freed"]_vars
    /\ [](Alive /\ pc <= Len(Program) =>
            \A c \in StepHandles :
               IF Cur.op = "InitHandle" /\ sub = "call"
               THEN hw.handle[c] = "none"
               ELSE hw.handle[c] = "live")
    /\ [](\A c \in Comps : hw.handle[c] = "freed" =>
            /\ h.stateCmds[c] = GlobalTargets
            /\ h.confirmed[c] = "Loaded"
            /\ h.ignored = 0 => hw.state[c] = "Loaded"
            /\ \A p \in BufferPorts : PortOwner(p) = c => hw.buf[p] = "freed")

====
